---------------------------- MODULE Spec2Model ----------------------------
(* Lifecycle state machine of eslib.Processor (src/eslib/Processor.py):     *)
(* a graph of processors, each with connectors (input queues served by a    *)
(* dispatcher thread), sockets (fan-out to subscribers' connectors) and,    *)
(* for generators, a worker thread running _run().                          *)
EXTENDS Integers, Sequences, FiniteSets, TLC

(* ------------------------------ bounds ---------------------------------- *)
\* documents created by put() and on_tick() in one behaviour
MaxDocs == 1
\* worker threads of one generator that may be alive at the same time
MaxWorkers == 2
\* lifecycle calls (start, stop, abort, suspend, resume, restart) made from outside
MaxCalls == 3
\* lifecycle calls made from outside on the two-stage pipeline
MaxPipelineCalls == 5
\* documents the generator of scenario S1 emits before it stops itself
MaxS1Docs == 3
\* nested calls of _start_running the interpreter's recursion limit allows
MaxDepth == 5

(* ------------------------------ universe -------------------------------- *)
NoProc == "-"
Docs == 1..MaxDocs
\* the threads that call start() statement by statement
Callers == {"T1", "T2"}
WorkerIds == 1..MaxWorkers
\* names of connectors and of sockets
ConnectorNames == {"in", "aux"}
SocketNames == {"out", "alt"}

VARIABLES
    cfg,        \* the graph as built before start: is_generator, keepalive, connectors, edges
    proc,       \* per processor: the status flags, _runchan_count, _initialized
    conn,       \* per connector <<owner, name>>: flags and inbound queue
    wk,         \* per processor: position of each worker thread in _run()
    thr,        \* per processor: self._thread (0 is None)
    handled,    \* per processor: documents its connector handler was called with, in order
    cnt,        \* invocations so far: on_open, on_startup, on_shutdown and on_close per
                \* processor, run() per connector
    nextDoc,    \* next fresh document
    waiting,    \* processors with a restart() call blocked in _wait(True)
    putLog,     \* <<processor, document>> accepted by put()
    last,       \* the last lifecycle call: [op, p, ok, all]; ok: it returned without raising
                \* and (stop, abort) took effect; all: everything reachable from p was
                \* running when it was made
    calls,      \* lifecycle calls the outside may still make
    callers     \* per calling thread: its stack of frames inside start(), innermost first

vars == <<cfg, proc, conn, wk, thr, handled, cnt, nextDoc, waiting, putLog, last, calls, callers>>

(* ------------------------------ the graph ------------------------------- *)
\* Processor._iter_subscribers: owners of the connectors attached to the sockets,
\* in socket order and, within a socket, in attachment order.
_iter_subscribers(p) ==
    LET E == SelectSeq(cfg.edges, LAMBDA e : e.src = p)
    IN  [i \in 1..Len(E) |-> E[i].dst]

\* connectors of processor p (keys of self.connectors)
connectors(p) == {k \in DOMAIN conn : k[1] = p}

RECURSIVE ReachFrom(_, _)
ReachFrom(S, n) ==
    IF n = 0 THEN S
    ELSE ReachFrom(S \cup {cfg.edges[i].dst : i \in {j \in 1..Len(cfg.edges) : cfg.edges[j].src \in S}}, n - 1)

\* p and every processor reachable from p through socket -> connector edges
Reach(p) == ReachFrom({p}, Cardinality(cfg.procs))

(* ------------------------------ status ---------------------------------- *)
status_swapped(pr) ==
    IF pr.aborted THEN "aborted"
    ELSE IF pr.stopping THEN "stopping"
    ELSE IF pr.restarting THEN "restarting"
    ELSE IF pr.running /\ pr.suspended THEN "suspended"
    ELSE IF pr.running THEN "running"
    ELSE "stopped"

\* Processor.status
status(pr) ==
    IF pr.aborted THEN "aborted"
    ELSE IF pr.restarting THEN "restarting"
    ELSE IF pr.stopping THEN "stopping"
    ELSE IF pr.running /\ pr.suspended THEN "suspended"
    ELSE IF pr.running THEN "running"
    ELSE "stopped"

(* ------------------------------ the world ------------------------------- *)
\* The mutable program state as one value, so that the cascading methods are
\* functions from world to world. exc: the call raised; cap: a thread could not
\* be created within MaxWorkers; depth: nested calls of the run cascade.
World ==
    [proc |-> proc, conn |-> conn, wk |-> wk, thr |-> thr, handled |-> handled,
     cnt |-> cnt, exc |-> FALSE, cap |-> FALSE, depth |-> 0]

Apply(w) ==
    /\ proc' = w.proc
    /\ conn' = w.conn
    /\ wk' = w.wk
    /\ thr' = w.thr
    /\ handled' = w.handled
    /\ cnt' = w.cnt

(* ------------------------------ Connector ------------------------------- *)
\* Connector.accept_incoming: accepting-only, or no-op when already running
Connector_accept_incoming(c) == IF c.running THEN c ELSE [c EXCEPT !.accepting = TRUE]
\* Connector.run: start the dispatcher thread
Connector_run(c) == [c EXCEPT !.running = TRUE, !.accepting = TRUE, !.stopping = FALSE, !.suspended = FALSE]
\* Connector.suspend / resume: pause or unpause dispatching, keep accepting
Connector_suspend(c) == [c EXCEPT !.suspended = TRUE]
Connector_resume(c) == [c EXCEPT !.suspended = FALSE]
\* Connector.stop: enter draining
Connector_stop(c) == [c EXCEPT !.accepting = FALSE, !.stopping = TRUE]
\* Connector.abort: discard the queue, terminate the dispatcher, go idle
Connector_abort(c) ==
    [c EXCEPT !.accepting = FALSE, !.running = FALSE, !.stopping = FALSE,
              !.suspended = FALSE, !.queue = <<>>]
\* Connector.receive: enqueue when accepting, drop otherwise
Connector_receive(c, d) == IF c.accepting THEN [c EXCEPT !.queue = Append(@, d)] ELSE c

\* the connector method named op, applied to connector c
Connector_call(op, c) ==
    CASE op = "accept_incoming" -> Connector_accept_incoming(c)
      [] op = "run" -> Connector_run(c)
      [] op = "suspend" -> Connector_suspend(c)
      [] op = "resume" -> Connector_resume(c)
      [] op = "stop" -> Connector_stop(c)
      [] op = "abort" -> Connector_abort(c)

\* for connector in self.connectors.itervalues(): connector.op()
each_connector(w, p, op) ==
    [w EXCEPT !.conn = [k \in DOMAIN w.conn |->
                          IF k[1] = p THEN Connector_call(op, w.conn[k]) ELSE w.conn[k]],
              !.cnt.run = [k \in DOMAIN w.conn |->
                          IF k[1] = p /\ op = "run" THEN w.cnt.run[k] + 1 ELSE w.cnt.run[k]]]


\* Socket.send on the sockets of p: enqueue into each attached connector
RECURSIVE send_each(_, _, _)
send_each(w, E, d) ==
    IF E = <<>> THEN w
    ELSE LET k == <<Head(E).dst, Head(E).c>>
         IN  send_each([w EXCEPT !.conn[k] = Connector_receive(@, d)], Tail(E), d)

send(w, p, d) == send_each(w, SelectSeq(cfg.edges, LAMBDA e : e.src = p), d)

\* str.upper on a document: document i > 0 stands for "x<i>" and -i for "X<i>"
upper(d) == IF d > 0 THEN -d ELSE d

\* the connector's handler method: record the document and re-emit it, uppercased
\* by a transformer and unchanged otherwise
handler(w, p, d) ==
    send([w EXCEPT !.handled[p] = Append(@, d)], p, IF p \in cfg.upper THEN upper(d) ELSE d)

(* ------------------------------ Processor ------------------------------- *)
\* Processor._setup; F: the processors whose on_open raises
RECURSIVE _setup(_, _, _), _setup_each(_, _, _)
_setup_each(w, subs, F) ==
    IF subs = <<>> \/ w.exc THEN w
    ELSE _setup_each(_setup(w, Head(subs), F), Tail(subs), F)

_setup(w, p, F) ==
    IF w.proc[p].initialized THEN w
    ELSE IF p \in F THEN [w EXCEPT !.cnt.on_open[p] = @ + 1, !.exc = TRUE]
    ELSE _setup_each([w EXCEPT !.cnt.on_open[p] = @ + 1, !.proc[p].initialized = TRUE],
                     _iter_subscribers(p), F)

\* Processor._close
_close(w, p) == [w EXCEPT !.cnt.on_close[p] = @ + 1, !.proc[p].initialized = FALSE]

\* Processor._accept_incoming
RECURSIVE _accept_incoming(_, _), _accept_incoming_each(_, _)
_accept_incoming_each(w, subs) ==
    IF subs = <<>> \/ w.exc THEN w
    ELSE _accept_incoming_each(_accept_incoming(w, Head(subs)), Tail(subs))

_accept_incoming(w, p) ==
    IF w.proc[p].accepting THEN w
    ELSE IF w.proc[p].stopping THEN [w EXCEPT !.exc = TRUE]
    ELSE LET w1 == [w EXCEPT !.proc[p].accepting = TRUE]
         IN  IF w1.proc[p].restarting THEN w1
             ELSE _accept_incoming_each(each_connector(w1, p, "accept_incoming"),
                                        _iter_subscribers(p))

\* threading.Thread(target=self._run).start(): the new thread is self._thread
spawn(w, p) ==
    LET free == {i \in WorkerIds : w.wk[p][i] = "none"}
    IN  IF free = {} THEN [w EXCEPT !.cap = TRUE]
        ELSE LET i == CHOOSE i \in free : \A j \in free : i <= j
             IN  [w EXCEPT !.wk[p][i] = "enter", !.thr[p] = i]

\* Processor._start_running
RECURSIVE _start_running(_, _), _start_running_each(_, _)
_start_running_each(w, subs) ==
    IF subs = <<>> \/ w.exc THEN w
    ELSE _start_running_each(_start_running(w, Head(subs)), Tail(subs))

\* a call nested deeper than the interpreter's recursion limit raises
_start_running(w, p) ==
    IF w.depth >= MaxDepth THEN [w EXCEPT !.exc = TRUE]
    ELSE IF w.proc[p].running THEN w
    ELSE LET r  == w.proc[p].restarting
             w1 == IF r THEN w
                   ELSE [_start_running_each(
                            each_connector([w EXCEPT !.proc[p].runchan = Cardinality(connectors(p)),
                                                     !.depth = @ + 1],
                                           p, "run"),
                            _iter_subscribers(p))
                         EXCEPT !.depth = w.depth]
             w2 == [w1 EXCEPT !.proc[p].aborted = FALSE, !.proc[p].stopping = FALSE,
                              !.proc[p].suspended = FALSE, !.proc[p].running = TRUE]
             w3 == IF cfg.gen[p] THEN spawn(w2, p) ELSE w2
         IN  IF w1.exc THEN w1
             ELSE IF r THEN [each_connector(w3, p, "resume") EXCEPT !.proc[p].restarting = FALSE]
             ELSE w3

\* Processor._start
_start(w, p, F) ==
    LET w1 == _setup(w, p, F)
        w2 == IF w1.exc THEN w1 ELSE _accept_incoming(w1, p)
    IN  IF w2.exc THEN w2 ELSE _start_running(w2, p)

start_unguarded(w, p, F) == _start(w, p, F)

\* Processor.start
start(w, p, F) ==
    IF w.proc[p].stopping \/ w.proc[p].restarting THEN [w EXCEPT !.exc = TRUE]
    ELSE _start(w, p, F)

\* Processor._stop
_stop(w, p) ==
    LET w1 == [w EXCEPT !.proc[p].accepting = FALSE, !.proc[p].stopping = TRUE]
    IN  IF w1.proc[p].restarting THEN each_connector(w1, p, "suspend")
        ELSE each_connector(w1, p, "stop")

\* Processor.stop
stop(w, p) ==
    IF w.proc[p].stopping \/ w.proc[p].restarting \/ ~w.proc[p].running THEN w
    ELSE _stop(w, p)

RECURSIVE stop_each(_, _, _)
stop_each(w, subs, honour) ==
    IF subs = <<>> THEN w
    ELSE stop_each(IF honour /\ cfg.keepalive[Head(subs)] THEN w ELSE stop(w, Head(subs)),
                   Tail(subs), honour)

production_stopped_nokeepalive(w, p, restarting) ==
    LET w1 == [w EXCEPT !.proc[p].runchan = @ - 1]
    IN  IF restarting \/ w1.proc[p].runchan = 0
        THEN LET w2 == _close([w1 EXCEPT !.proc[p].stopping = FALSE, !.proc[p].running = FALSE], p)
             IN  IF restarting THEN w2 ELSE stop_each(w2, _iter_subscribers(p), FALSE)
        ELSE w1

\* Processor.production_stopped
production_stopped(w, p, restarting) ==
    LET w1 == [w EXCEPT !.proc[p].runchan = @ - 1]
    IN  IF restarting \/ w1.proc[p].runchan = 0
        THEN LET w2 == _close([w1 EXCEPT !.proc[p].stopping = FALSE, !.proc[p].running = FALSE], p)
             IN  IF restarting THEN w2 ELSE stop_each(w2, _iter_subscribers(p), TRUE)
        ELSE w1

\* Processor.abort
RECURSIVE abort(_, _), abort_each(_, _)
abort_each(w, subs) ==
    IF subs = <<>> THEN w
    ELSE abort_each(abort(w, Head(subs)), Tail(subs))

abort(w, p) ==
    IF w.proc[p].aborted \/ ~w.proc[p].running THEN w
    ELSE LET w1 == each_connector(w, p, "abort")
             w2 == [w1 EXCEPT !.proc[p].aborted = TRUE, !.proc[p].accepting = FALSE,
                              !.proc[p].running = FALSE, !.proc[p].stopping = FALSE,
                              !.proc[p].restarting = FALSE]
             w3 == IF cfg.gen[p] THEN w2 ELSE _close(w2, p)
         IN  abort_each(w3, _iter_subscribers(p))

\* a suspend that cascades to the subscribers
suspend_cascading(w, p) ==
    LET S == {p} \cup {_iter_subscribers(p)[i] : i \in DOMAIN _iter_subscribers(p)}
    IN  [w EXCEPT !.proc = [q \in DOMAIN w.proc |->
                              IF q \in S THEN [w.proc[q] EXCEPT !.suspended = TRUE] ELSE w.proc[q]],
                  !.conn = [k \in DOMAIN w.conn |->
                              IF k[1] \in S THEN Connector_suspend(w.conn[k]) ELSE w.conn[k]]]

\* Processor.suspend
suspend(w, p) == each_connector([w EXCEPT !.proc[p].suspended = TRUE], p, "suspend")

\* Processor.resume
resume(w, p) == each_connector([w EXCEPT !.proc[p].suspended = FALSE], p, "resume")

(* ------------------------------ history --------------------------------- *)
IsRunning(p) == proc[p].running /\ ~proc[p].stopping /\ ~proc[p].restarting

\* p and everything reachable from p is running
AllRunning(p) == \A q \in Reach(p) : IsRunning(q) /\ ~proc[q].aborted

\* the record of a lifecycle call
Call(op, p, ok) == [op |-> op, p |-> p, ok |-> ok, all |-> AllRunning(p)]

(* ------------------------------ caller actions -------------------------- *)
\* one more lifecycle call from outside
Called == calls > 0 /\ calls' = calls - 1

\* on_open of at most one processor raises during one call
FailSets == {{}} \cup {{q} : q \in cfg.procs}

Start(p) ==
    /\ Called
    /\ \E F \in FailSets :
        LET w == start(World, p, F)
        IN  /\ ~w.cap
            /\ Apply(w)
            /\ last' = Call("start", p, ~w.exc)
    /\ UNCHANGED <<cfg, callers, nextDoc, waiting, putLog>>

Stop(p) ==
    /\ Called
    /\ Apply(stop(World, p))
    /\ last' = Call("stop", p, IsRunning(p))
    /\ UNCHANGED <<cfg, callers, nextDoc, waiting, putLog>>

Abort(p) ==
    /\ Called
    /\ Apply(abort(World, p))
    /\ last' = Call("abort", p, proc[p].running /\ ~proc[p].aborted)
    /\ UNCHANGED <<cfg, callers, nextDoc, waiting, putLog>>

Suspend(p) ==
    /\ Called
    /\ Apply(suspend(World, p))
    /\ last' = Call("suspend", p, TRUE)
    /\ UNCHANGED <<cfg, callers, nextDoc, waiting, putLog>>

Resume(p) ==
    /\ Called
    /\ Apply(resume(World, p))
    /\ last' = Call("resume", p, TRUE)
    /\ UNCHANGED <<cfg, callers, nextDoc, waiting, putLog>>

\* Processor.restart up to the call of _wait(True)
restart_begin(w, p, F) ==
    IF w.proc[p].stopping THEN w
    ELSE IF ~w.proc[p].running THEN _start(w, p, F)
    ELSE _stop([w EXCEPT !.proc[p].restarting = TRUE], p)

Restart(p) ==
    /\ Called
    /\ p \notin waiting
    /\ \E F \in FailSets :
        LET w == restart_begin(World, p, F)
        IN  /\ ~w.cap
            /\ Apply(w)
            /\ waiting' = IF ~proc[p].stopping /\ proc[p].running THEN waiting \cup {p} ELSE waiting
            /\ last' = Call("restart", p, ~w.exc)
    /\ UNCHANGED <<cfg, callers, nextDoc, putLog>>

\* Processor._wait(True) has returned: running is clear and self._thread is joined
WaitOver(p) == ~proc[p].running /\ (IF thr[p] = 0 THEN TRUE ELSE wk[p][thr[p]] = "none")

\* Processor.restart from the return of _wait(True): self._thread = None, then _start()
restart_end(w, p, F) == _start([w EXCEPT !.thr[p] = 0], p, F)

RestartReturn(p) ==
    /\ p \in waiting
    /\ WaitOver(p)
    /\ \E F \in FailSets :
        LET w == restart_end(World, p, F)
        IN  /\ ~w.cap
            /\ Apply(w)
            /\ last' = Call("restarted", p, ~w.exc)
    /\ waiting' = waiting \ {p}
    /\ UNCHANGED <<calls, cfg, callers, nextDoc, putLog>>

\* Processor.put of document d on connector k
put(w, k, d) ==
    IF ~w.conn[k].accepting THEN [w EXCEPT !.exc = TRUE]
    ELSE [w EXCEPT !.conn[k] = Connector_receive(@, d)]

\* put() of a fresh document; putLog records it when put() returned normally
Put(k) ==
    /\ nextDoc <= MaxDocs
    /\ LET w == put(World, k, nextDoc)
       IN  /\ Apply(w)
           /\ putLog' = IF w.exc THEN putLog ELSE putLog \cup {<<k[1], nextDoc>>}
           /\ nextDoc' = IF w.exc THEN nextDoc ELSE nextDoc + 1
    /\ UNCHANGED <<calls, cfg, callers, waiting, last>>

(* ------------------------------ dispatcher threads ---------------------- *)
\* the dispatcher pops one document and calls the handler
Dispatch(k) ==
    /\ conn[k].running /\ ~conn[k].suspended /\ conn[k].queue # <<>>
    /\ Apply(handler([World EXCEPT !.conn[k].queue = Tail(@)], k[1], Head(conn[k].queue)))
    /\ UNCHANGED <<calls, cfg, callers, nextDoc, waiting, putLog, last>>

\* a draining dispatcher finds its queue empty: it exits and tells the owner
DrainDone(k) ==
    /\ conn[k].running /\ conn[k].stopping /\ ~conn[k].suspended /\ conn[k].queue = <<>>
    /\ Apply(production_stopped(
                [World EXCEPT !.conn[k].running = FALSE, !.conn[k].stopping = FALSE],
                k[1], FALSE))
    /\ UNCHANGED <<calls, cfg, callers, nextDoc, waiting, putLog, last>>

(* ------------------------------ worker thread: _run --------------------- *)
\* _runchan_count += 1; on_startup()
WorkerEnter(p, i) ==
    /\ wk[p][i] = "enter"
    /\ Apply([World EXCEPT !.proc[p].runchan = @ + 1, !.cnt.on_startup[p] = @ + 1,
                            !.wk[p][i] = "loop"])
    /\ UNCHANGED <<calls, cfg, callers, nextDoc, waiting, putLog, last>>

\* while self.running:
WorkerLoop(p, i) ==
    /\ wk[p][i] = "loop"
    /\ wk' = [wk EXCEPT ![p][i] = IF proc[p].running THEN "body" ELSE "exit"]
    /\ UNCHANGED <<calls, cfg, callers, proc, conn, thr, handled, cnt, nextDoc, waiting, putLog, last>>

\* the loop body when stopping: on_shutdown() and production_stopped(self.restarting)
\* once restarting or the last channel left; otherwise nothing
run_stopping(w, p) ==
    IF w.proc[p].restarting \/ w.proc[p].runchan = 1
    THEN production_stopped([w EXCEPT !.cnt.on_shutdown[p] = @ + 1], p, w.proc[p].restarting)
    ELSE w

WorkerShutdown(p, i) ==
    /\ wk[p][i] = "body"
    /\ proc[p].stopping
    /\ Apply(run_stopping([World EXCEPT !.wk[p][i] = "loop"], p))
    /\ UNCHANGED <<calls, cfg, callers, nextDoc, waiting, putLog, last>>

\* the loop body when not stopping: on_tick() unless suspended. on_tick does
\* nothing, emits a fresh document on the sockets, or calls self.stop()
WorkerTick(p, i) ==
    /\ wk[p][i] = "body"
    /\ ~proc[p].stopping
    /\ \/ /\ Apply([World EXCEPT !.wk[p][i] = "loop"])
          /\ UNCHANGED <<nextDoc, last>>
       \/ /\ ~proc[p].suspended
          /\ nextDoc <= MaxDocs
          /\ Apply(send([World EXCEPT !.wk[p][i] = "loop"], p, nextDoc))
          /\ nextDoc' = nextDoc + 1
          /\ UNCHANGED <<last>>
       \/ /\ ~proc[p].suspended
          /\ IsRunning(p)
          /\ Apply(stop([World EXCEPT !.wk[p][i] = "loop"], p))
          /\ last' = Call("stop", p, IsRunning(p))
          /\ UNCHANGED nextDoc
    /\ UNCHANGED <<calls, cfg, callers, waiting, putLog>>

\* after the loop: if self.aborted: self._close(); self._runchan_count -= 1
run_exit(w, p) ==
    IF w.proc[p].aborted THEN [_close(w, p) EXCEPT !.proc[p].runchan = @ - 1] ELSE w

WorkerExit(p, i) ==
    /\ wk[p][i] = "exit"
    /\ Apply(run_exit([World EXCEPT !.wk[p][i] = "none"], p))
    /\ UNCHANGED <<calls, cfg, callers, nextDoc, waiting, putLog, last>>

(* ------------------------------ specification --------------------------- *)
Edge(p, q) == [src |-> p, dst |-> q, c |-> "in"]

\* the kinds of root processor: a generator without connectors, a processor fed
\* through a connector by put(), a processor with neither
Kinds == {[gen |-> TRUE, conns |-> {}], [gen |-> FALSE, conns |-> {"in"}], [gen |-> FALSE, conns |-> {}]}

\* A -> B: A of any kind; B a processor with one connector, keepalive or not
Pairs ==
    {[procs |-> {"A", "B"},
      gen |-> [p \in {"A", "B"} |-> IF p = "A" THEN a.gen ELSE FALSE],
      keepalive |-> [p \in {"A", "B"} |-> IF p = "B" THEN ka ELSE FALSE],
      conns |-> [p \in {"A", "B"} |-> IF p = "A" THEN a.conns ELSE {"in"}],
      upper |-> {},
      edges |-> <<Edge("A", "B")>>] : a \in Kinds, ka \in BOOLEAN}

Configs == Pairs

\* Processor.__init__ and Connector.__init__
InitWith(c, n) ==
    /\ cfg = c
    /\ proc = [p \in c.procs |->
                [accepting |-> FALSE, stopping |-> FALSE, running |-> FALSE,
                 suspended |-> FALSE, restarting |-> FALSE, aborted |-> FALSE,
                 initialized |-> FALSE, runchan |-> 0]]
    /\ conn = [k \in {k \in c.procs \X ConnectorNames : k[2] \in c.conns[k[1]]} |->
                [accepting |-> FALSE, running |-> FALSE, suspended |-> FALSE,
                 stopping |-> FALSE, queue |-> <<>>]]
    /\ wk = [p \in c.procs |-> [i \in WorkerIds |-> "none"]]
    /\ thr = [p \in c.procs |-> 0]
    /\ handled = [p \in c.procs |-> <<>>]
    /\ cnt = [on_open |-> [p \in c.procs |-> 0], on_startup |-> [p \in c.procs |-> 0],
              on_shutdown |-> [p \in c.procs |-> 0], on_close |-> [p \in c.procs |-> 0],
              run |-> [k \in {k \in c.procs \X ConnectorNames : k[2] \in c.conns[k[1]]} |-> 0]]
    /\ nextDoc = 1
    /\ waiting = {}
    /\ putLog = {}
    /\ last = [op |-> "none", p |-> NoProc, ok |-> TRUE, all |-> FALSE]
    /\ calls = n
    /\ callers = [t \in Callers |-> <<>>]

Init == \E c \in Configs : InitWith(c, MaxCalls)

CallerNext ==
    \E p \in cfg.procs :
        \/ Start(p)
        \/ Stop(p)
        \/ Abort(p)
        \/ Suspend(p)
        \/ Resume(p)
        \/ Restart(p)
        \/ RestartReturn(p)

ThreadNext ==
    \/ \E k \in DOMAIN conn : Dispatch(k) \/ DrainDone(k)
    \/ \E p \in cfg.procs, i \in WorkerIds :
        \/ WorkerEnter(p, i)
        \/ WorkerLoop(p, i)
        \/ WorkerShutdown(p, i)
        \/ WorkerTick(p, i)
        \/ WorkerExit(p, i)

Next ==
    \/ CallerNext
    \/ \E k \in DOMAIN conn : Put(k)
    \/ ThreadNext

Spec == Init /\ [][Next]_vars

(* ------------------------------ claims ---------------------------------- *)
Status(p) == status(proc[p])

\* C6: the status of every processor is given by its flags with the precedence
\* aborted, restarting, stopping, running and suspended, running, stopped.
C6_StatusPrecedence ==
    \A p \in cfg.procs :
        LET f == proc[p]
        IN  /\ f.aborted => Status(p) = "aborted"
            /\ ~f.aborted /\ f.restarting => Status(p) = "restarting"
            /\ ~f.aborted /\ ~f.restarting /\ f.stopping => Status(p) = "stopping"
            /\ ~f.aborted /\ ~f.restarting /\ ~f.stopping /\ f.running /\ f.suspended
                    => Status(p) = "suspended"
            /\ ~f.aborted /\ ~f.restarting /\ ~f.stopping /\ f.running /\ ~f.suspended
                    => Status(p) = "running"
            /\ ~f.aborted /\ ~f.restarting /\ ~f.stopping /\ ~f.running
                    => Status(p) = "stopped"

\* a processor with restarting and stopping both set (and suspended as well): the
\* precedence decides
C6_Witness ==
    \E p \in cfg.procs :
        proc[p].restarting /\ proc[p].stopping /\ proc[p].suspended /\ proc[p].running

\* C7: a start() on a processor that is stopping or restarting raises and leaves
\* every flag, counter, connector and thread of every processor as it was.
C7_StartRejected ==
    [][\A p \in cfg.procs :
          (proc[p].stopping \/ proc[p].restarting) /\ Start(p)
              => ~last'.ok /\ UNCHANGED <<proc, conn, wk, thr, handled, cnt>>]_vars

\* a start() was rejected on a processor that is restarting and no longer stopping
C7_Witness ==
    \E p \in cfg.procs :
        /\ last.op = "start" /\ last.p = p /\ ~last.ok
        /\ proc[p].restarting /\ ~proc[p].stopping

\* every thread is blocked or idle: without a further call nothing changes any more
Quiescent == ~ENABLED ThreadNext

Stopped(q) ==
    /\ Status(q) = "stopped"
    /\ proc[q].runchan = 0
    /\ \A k \in connectors(q) : conn[k].queue = <<>>

\* C1: after a stop() of a running root without keepalive subscribers and no further
\* lifecycle call, once the threads have nothing left to do every reachable
\* processor is stopped with runchan_count = 0 and empty queues.
C1_StopReachesStopped ==
    (/\ last.op = "stop" /\ last.ok /\ last.all
     /\ \A q \in Reach(last.p) \ {last.p} : ~cfg.keepalive[q]
     /\ Quiescent)
        => \A q \in Reach(last.p) : Stopped(q)

\* C2: after a start() that returned normally and with no lifecycle call since,
\* the processor and everything reachable from it is initialized, accepting and running.
C2_StartedAllUp ==
    (last.op = "start" /\ last.ok)
        => \A q \in Reach(last.p) :
              proc[q].initialized /\ proc[q].accepting /\ proc[q].running

\* a step in which processor p stops producing: stop() on p from outside or from
\* its own on_tick, the last dispatcher of p draining out, the worker of p shutting down
ProducerStops(p) ==
    \/ Stop(p)
    \/ \E k \in connectors(p) : DrainDone(k)
    \/ \E i \in WorkerIds : WorkerShutdown(p, i) \/ WorkerTick(p, i)

\* C4: a keepalive subscriber s keeps running and accepting through every step in
\* which a producer of s stops, and s starts stopping only by a stop() or restart()
\* on s itself (from outside or from its own on_tick).
C4_KeepaliveFrame ==
    [][\A s \in cfg.procs :
          cfg.keepalive[s] =>
              /\ \A p \in cfg.procs \ {s} :
                    (s \in Reach(p) /\ ProducerStops(p))
                        => /\ proc'[s].running = proc[s].running
                           /\ proc'[s].accepting = proc[s].accepting
              /\ (~proc[s].stopping /\ proc'[s].stopping)
                    => Stop(s) \/ Restart(s) \/ \E i \in WorkerIds : WorkerTick(s, i)]_vars

\* the producer A has been stopped and has reached 'stopped' with its subscriber
\* B, which has keepalive set, still 'running'
C4_Witness ==
    /\ cfg.keepalive["B"]
    /\ last.op = "stop" /\ last.p = "A" /\ last.ok /\ last.all
    /\ Status("A") = "stopped" /\ ~proc["A"].initialized
    /\ Status("B") = "running" /\ proc["B"].accepting

Aborted(q) ==
    /\ proc[q].aborted
    /\ ~proc[q].accepting /\ ~proc[q].running /\ ~proc[q].stopping /\ ~proc[q].restarting
    /\ Status(q) = "aborted"
    /\ \A k \in connectors(q) : conn[k].queue = <<>>

\* C5: when abort() on a running processor p returns, p and every processor
\* reachable from p is aborted, with all its connectors' queues empty.
C5_AbortReachesAll ==
    [][\A p \in cfg.procs :
          (proc[p].running /\ Abort(p)) => \A q \in Reach(p) : Aborted(q)']_vars

\* C8: a start() that raises leaves the initialized, accepting and running flags
\* of every processor as they were.
C8_StartAllOrNothing ==
    [][\A p \in cfg.procs :
          (Start(p) /\ ~last'.ok)
              => \A q \in cfg.procs :
                    /\ proc'[q].initialized = proc[q].initialized
                    /\ proc'[q].accepting = proc[q].accepting
                    /\ proc'[q].running = proc[q].running]_vars

\* C9: restart() on a running processor p, from the call to its return, leaves
\* the flags, the runchan_count and the connectors of every subscriber unchanged
\* (the return taken with restarting still set: no abort() came in between).
C9_RestartLeavesSubscribers ==
    [][\A p \in cfg.procs :
          ((proc[p].running /\ Restart(p)) \/ (proc[p].restarting /\ RestartReturn(p)))
              => \A q \in Reach(p) \ {p} :
                    /\ proc'[q] = proc[q]
                    /\ \A k \in connectors(q) : conn'[k] = conn[k]]_vars

\* C10: a restart() waiting in _wait(True) can always make progress without a
\* further call: some thread can take a step or the call can return.
C10_RestartReturns ==
    \A p \in waiting : ENABLED ThreadNext \/ ENABLED RestartReturn(p)

\* C11: for a generator p, once start(p) followed by restart(p) (the only two calls
\* made) has returned, on_startup and on_open of p have each been invoked exactly
\* once in total, as soon as every worker thread created so far has begun _run().
C11_StartupOnceOverRestart ==
    \A p \in cfg.procs :
        (/\ cfg.gen[p]
         /\ last.op = "restarted" /\ last.p = p /\ last.ok
         /\ calls = MaxCalls - 2
         /\ \A i \in WorkerIds : wk[p][i] # "enter")
            => cnt.on_startup[p] = 1 /\ cnt.on_open[p] = 1

\* C12: start() on a running processor changes no flag, counter, connector or
\* thread and invokes no handler; a stop() following a stop() of the same
\* processor, and an abort() following an abort(), leave every status as it was.
C12_Idempotent ==
    [][\A p \in cfg.procs :
          /\ (IsRunning(p) /\ Start(p))
                => UNCHANGED <<proc, conn, wk, thr, handled, cnt>>
          /\ (last.op = "stop" /\ last.p = p /\ Stop(p))
                => \A q \in cfg.procs : Status(q)' = Status(q)
          /\ (last.op = "abort" /\ last.p = p /\ Abort(p))
                => \A q \in cfg.procs : Status(q)' = Status(q)]_vars

\* C13: suspend() and resume() on p set and clear p.suspended and the suspended
\* flag of p's own connectors and change nothing else: not p.accepting, p.running
\* or p.stopping, no queue, no flag or connector of any other processor, no thread.
C13_SuspendResumeFrame ==
    [][\A p \in cfg.procs :
          (Suspend(p) \/ Resume(p))
              => LET b == Suspend(p)
                 IN  /\ proc' = [proc EXCEPT ![p].suspended = b]
                     /\ conn' = [k \in DOMAIN conn |->
                                   IF k[1] = p THEN [conn[k] EXCEPT !.suspended = b] ELSE conn[k]]
                     /\ UNCHANGED <<wk, thr, handled, cnt>>]_vars

\* a running, accepting processor with a connector has been suspended while
\* everything reachable from it was running: it is suspended and still accepting,
\* its subscribers are not suspended
C13_Witness ==
    \E p \in cfg.procs :
        /\ last.op = "suspend" /\ last.p = p /\ last.all
        /\ Status(p) = "suspended" /\ proc[p].accepting
        /\ connectors(p) # {}
        /\ \A k \in connectors(p) : conn[k].suspended /\ conn[k].accepting
        /\ Reach(p) # {p}
        /\ \A q \in Reach(p) \ {p} : Status(q) = "running"

\* a step of the stop cascade of p: a thread of p runs production_stopped() and a
\* subscriber of p is told to stop
CascadesStop(p) ==
    /\ \/ \E k \in connectors(p) : DrainDone(k)
       \/ \E i \in WorkerIds : WorkerShutdown(p, i)
    /\ \E j \in DOMAIN _iter_subscribers(p) :
          LET q == _iter_subscribers(p)[j]
          IN  q # p /\ ~proc[q].stopping /\ proc'[q].stopping

\* p can still emit: a dispatcher of p is running or has documents queued, or a
\* worker of p is inside the loop body
CanEmit(p) ==
    \/ \E k \in connectors(p) : conn[k].running \/ conn[k].queue # <<>>
    \/ \E i \in WorkerIds : wk[p][i] = "body"

\* C17: when the stop cascade tells a subscriber of p to stop, p has
\* runchan_count = 0, is neither running nor stopping, and can no longer emit:
\* its dispatchers have drained and its worker has left the loop body.
C17_StopAfterDrain ==
    [][\A p \in cfg.procs :
          CascadesStop(p)
              => /\ proc'[p].runchan = 0 /\ ~proc'[p].running /\ ~proc'[p].stopping
                 /\ ~CanEmit(p)']_vars

\* no producing channel of p is alive: no dispatcher runs and no worker thread exists
NoChannel(p) ==
    /\ \A k \in connectors(p) : ~conn[k].running
    /\ \A i \in WorkerIds : wk[p][i] = "none"

\* C18: in every reachable state runchan_count is not negative and counts the
\* producing channels that have started and not finished; in particular it is 0
\* when no dispatcher of the processor runs and none of its worker threads is alive.
C18_RunchanAccounting ==
    \A p \in cfg.procs :
        /\ proc[p].runchan >= 0
        /\ NoChannel(p) => proc[p].runchan = 0

\* C21: whenever the dispatcher of a connector of q hands a document to q's
\* handler, q's on_open has completed since q's last _close (q is initialized).
C21_OpenBeforeDispatch ==
    [][\A k \in DOMAIN conn : Dispatch(k) => proc[k[1]].initialized]_vars

\* C22: a generator never has more than one live worker thread executing _run.
C22_OneWorker ==
    \A p \in cfg.procs :
        cfg.gen[p] => Cardinality({i \in WorkerIds : wk[p][i] # "none"}) <= 1

\* C25: when abort() has been called on p while a restart() of p was waiting for
\* p to stop, then once the restart() has returned as well p has status
\* 'aborted' and is neither running nor accepting.
C25_AbortDuringRestart ==
    [][\A p \in cfg.procs :
          (p \in waiting /\ proc[p].aborted /\ RestartReturn(p))
              => /\ Status(p)' = "aborted"
                 /\ ~proc'[p].running /\ ~proc'[p].accepting]_vars

(* ------------------------------ the linear pipeline --------------------- *)
\* P -> Q of two processors with one connector each: documents are put on A,
\* whose handler re-emits them to B, whose handler collects them in handled["B"]
Pipeline ==
    [procs |-> {"A", "B"},
     gen |-> [p \in {"A", "B"} |-> FALSE],
     keepalive |-> [p \in {"A", "B"} |-> FALSE],
     conns |-> [p \in {"A", "B"} |-> {"in"}],
     upper |-> {},
     edges |-> <<Edge("A", "B")>>]

PipelineInit == InitWith(Pipeline, MaxPipelineCalls)

PipelineNext ==
    \/ Start("A")
    \/ Stop("A")
    \/ Put(<<"A", "in">>)
    \/ \E k \in DOMAIN conn : Dispatch(k) \/ DrainDone(k)

PipelineSpec == PipelineInit /\ [][PipelineNext]_vars

Count(seq, d) == Cardinality({i \in DOMAIN seq : seq[i] = d})

\* C3: in the pipeline, once a stop() of the running A has completed (A and B are
\* stopped), every document that put() accepted on A before it is in the list
\* collected by B exactly once: nothing queued at stop time is lost or duplicated.
C3_RoundTrip ==
    (last.op = "stop" /\ last.p = "A" /\ last.ok
        /\ Status("A") = "stopped" /\ Status("B") = "stopped")
        => \A d \in Docs : <<"A", d>> \in putLog => Count(handled["B"], d) = 1

(* ------------------------------ scenario S1 ----------------------------- *)
\* Processor.wait has returned: running and restarting are clear and the worker
\* thread, if any, is joined; self._thread = None
Wait(p) ==
    /\ ~proc[p].running /\ ~proc[p].restarting
    /\ IF thr[p] = 0 THEN TRUE ELSE wk[p][thr[p]] = "none"
    /\ thr' = [thr EXCEPT ![p] = 0]
    /\ last' = Call("wait", p, TRUE)
    /\ UNCHANGED <<calls, cfg, callers, proc, conn, wk, handled, cnt, nextDoc, waiting, putLog>>

\* A (generator) -> B (uppercasing transformer) -> C (collector)
S1 ==
    [procs |-> {"A", "B", "C"},
     gen |-> [p \in {"A", "B", "C"} |-> p = "A"],
     keepalive |-> [p \in {"A", "B", "C"} |-> FALSE],
     conns |-> [p \in {"A", "B", "C"} |-> IF p = "A" THEN {} ELSE {"in"}],
     upper |-> {"B"},
     edges |-> <<Edge("A", "B"), Edge("B", "C")>>]

\* one call from outside: start(A)
S1Init == InitWith(S1, 1)

\* the loop body of _run with the on_tick of A: emit the next document while
\* there is one, then call self.stop()
S1Tick(i) ==
    /\ wk["A"][i] = "body"
    /\ ~proc["A"].stopping /\ ~proc["A"].suspended
    /\ IF nextDoc <= MaxS1Docs
       THEN /\ Apply(send([World EXCEPT !.wk["A"][i] = "loop"], "A", nextDoc))
            /\ nextDoc' = nextDoc + 1
            /\ UNCHANGED last
       ELSE /\ Apply(stop([World EXCEPT !.wk["A"][i] = "loop"], "A"))
            /\ last' = Call("stop", "A", IsRunning("A"))
            /\ UNCHANGED nextDoc
    /\ UNCHANGED <<calls, cfg, callers, waiting, putLog>>

\* start(A) with no on_open raising, then wait(A); the threads run freely
S1Next ==
    \/ Start("A") /\ last'.ok
    \/ calls = 0 /\ last.op # "wait" /\ Wait("A")
    \/ \E k \in DOMAIN conn : Dispatch(k) \/ DrainDone(k)
    \/ \E i \in WorkerIds :
        \/ WorkerEnter("A", i)
        \/ WorkerLoop("A", i)
        \/ WorkerShutdown("A", i)
        \/ S1Tick(i)
        \/ WorkerExit("A", i)

S1Spec == S1Init /\ [][S1Next]_vars

\* the collected list: "X1", ..., "X<MaxS1Docs>" in this order
S1_Expected == [i \in 1..MaxS1Docs |-> upper(i)]

\* C16: in scenario S1, at the moment wait(A) returns after start(A), the list
\* collected by C is the uppercased documents in order, and A, B and C are
\* stopped with runchan_count = 0.
C16_S1AtWaitReturn ==
    [][Wait("A")
          => /\ handled'["C"] = S1_Expected
             /\ \A p \in {"A", "B", "C"} : Status(p)' = "stopped" /\ proc'[p].runchan = 0]_vars

(* ------------------------------ connection management ----------------- *)
\* a name or processor argument that is missing, a protocol that is unset
None == "None"

\* Terminal.protocol_compliance: either protocol is unset, or they are equal
protocol_compliance(sp, cp) == sp = None \/ cp = None \/ sp = cp

\* Processor._get_connector: [exc, name]
_get_connector(subscriber, connector_name) ==
    IF cfg.conns[subscriber] = {} THEN [exc |-> TRUE, name |-> None]
    ELSE IF connector_name = None
         THEN IF Cardinality(cfg.conns[subscriber]) > 1
              THEN IF cfg.default_connector[subscriber] # None
                   THEN [exc |-> FALSE, name |-> cfg.default_connector[subscriber]]
                   ELSE [exc |-> TRUE, name |-> None]
              ELSE [exc |-> FALSE, name |-> CHOOSE c \in cfg.conns[subscriber] : TRUE]
    ELSE IF connector_name \in cfg.conns[subscriber]
         THEN [exc |-> FALSE, name |-> connector_name]
         ELSE [exc |-> TRUE, name |-> None]

\* Processor._get_socket: [exc, name]
_get_socket(producer, socket_name) ==
    IF socket_name = None
    THEN IF Cardinality(cfg.socks[producer]) > 1
         THEN IF cfg.default_socket[producer] # None
              THEN [exc |-> FALSE, name |-> cfg.default_socket[producer]]
              ELSE [exc |-> TRUE, name |-> None]
         ELSE IF cfg.socks[producer] = {} THEN [exc |-> TRUE, name |-> None]
         ELSE [exc |-> FALSE, name |-> CHOOSE x \in cfg.socks[producer] : TRUE]
    ELSE IF socket_name \in cfg.socks[producer]
         THEN [exc |-> FALSE, name |-> socket_name]
         ELSE [exc |-> TRUE, name |-> None]

\* Processor._get_terminals: [exc, s, c]
_get_terminals(producer, socket_name, subscriber, connector_name) ==
    IF cfg.socks[producer] = {} THEN [exc |-> TRUE, s |-> None, c |-> None]
    ELSE LET connector == _get_connector(subscriber, connector_name)
         IN  IF connector.exc THEN [exc |-> TRUE, s |-> None, c |-> None]
             ELSE LET socket == _get_socket(producer, socket_name)
                  IN  IF socket.exc THEN [exc |-> TRUE, s |-> None, c |-> None]
                      ELSE [exc |-> FALSE, s |-> socket.name, c |-> connector.name]

\* socket.attach(connector); connector.attach(socket): the connections are ordered sets
link(E, e) == IF \E i \in DOMAIN E : E[i] = e THEN E ELSE Append(E, e)

\* Processor.attach without the protocol check
attach_unchecked(E, producer, subscriber, socket_name, connector_name) ==
    LET t == _get_terminals(producer, socket_name, subscriber, connector_name)
    IN  IF t.exc THEN [exc |-> "Exception", edges |-> E]
        ELSE [exc |-> None,
              edges |-> link(E, [src |-> producer, s |-> t.s, dst |-> subscriber, c |-> t.c])]

\* Processor.attach (self is the producer): [exc, edges], exc the exception raised
attach(E, producer, subscriber, socket_name, connector_name) ==
    LET t == _get_terminals(producer, socket_name, subscriber, connector_name)
    IN  IF t.exc THEN [exc |-> "Exception", edges |-> E]
        ELSE IF ~protocol_compliance(cfg.sproto[<<producer, t.s>>], cfg.cproto[<<subscriber, t.c>>])
        THEN [exc |-> "TerminalProtocolException", edges |-> E]
        ELSE [exc |-> None,
              edges |-> link(E, [src |-> producer, s |-> t.s, dst |-> subscriber, c |-> t.c])]

\* Processor.subscribe (self is the subscriber): [exc, edges], exc the exception raised
subscribe(E, subscriber, producer, socket_name, connector_name) ==
    LET t == _get_terminals(producer, socket_name, subscriber, connector_name)
    IN  IF t.exc THEN [exc |-> "Exception", edges |-> E]
        ELSE IF ~protocol_compliance(cfg.sproto[<<producer, t.s>>], cfg.cproto[<<subscriber, t.c>>])
        THEN [exc |-> "TerminalProtocolException", edges |-> E]
        ELSE [exc |-> None,
              edges |-> link(E, [src |-> producer, s |-> t.s, dst |-> subscriber, c |-> t.c])]

\* Terminal.get_connections(peer, peer_terminal_name) of connector <<q, c>>: the
\* edges into it, filtered by producer and socket name where these are given
Connector_get_connections(e, q, c, peer, peer_terminal_name) ==
    /\ e.dst = q /\ e.c = c
    /\ (peer = None \/ e.src = peer)
    /\ (peer_terminal_name = None \/ e.s = peer_terminal_name)

\* Terminal.get_connections(peer, peer_terminal_name) of socket <<p, x>>
Socket_get_connections(e, p, x, peer, peer_terminal_name) ==
    /\ e.src = p /\ e.s = x
    /\ (peer = None \/ e.dst = peer)
    /\ (peer_terminal_name = None \/ e.c = peer_terminal_name)

\* Processor.unsubscribe (self is the subscriber): the edges left
unsubscribe(E, subscriber, producer, socket_name, connector_name) ==
    SelectSeq(E, LAMBDA e :
        ~\E connector \in cfg.conns[subscriber] :
            /\ (connector_name = None \/ connector = connector)
            /\ Connector_get_connections(e, subscriber, connector, producer, socket_name))

\* Processor.detach (self is the producer): the edges left
detach(E, producer, subscriber, socket_name, connector_name) ==
    SelectSeq(E, LAMBDA e :
        ~\E socket \in cfg.socks[producer] :
            /\ (socket_name = None \/ socket = socket_name)
            /\ Socket_get_connections(e, producer, socket, subscriber, connector_name))

\* the record of a connection-management call of processor p; exc: what it raised
Wired(op, p, exc) == [op |-> op, p |-> p, ok |-> exc = None, exc |-> exc, all |-> FALSE]

Subscribe(subscriber, producer, socket_name, connector_name) ==
    /\ LET r == subscribe(cfg.edges, subscriber, producer, socket_name, connector_name)
       IN  /\ cfg' = [cfg EXCEPT !.edges = r.edges]
           /\ last' = Wired("subscribe", subscriber, r.exc)
    /\ UNCHANGED <<proc, conn, wk, thr, handled, cnt, nextDoc, waiting, putLog, calls, callers>>

Attach(producer, subscriber, socket_name, connector_name) ==
    /\ LET r == attach(cfg.edges, producer, subscriber, socket_name, connector_name)
       IN  /\ cfg' = [cfg EXCEPT !.edges = r.edges]
           /\ last' = Wired("attach", producer, r.exc)
    /\ UNCHANGED <<proc, conn, wk, thr, handled, cnt, nextDoc, waiting, putLog, calls, callers>>

Unsubscribe(subscriber, producer, socket_name, connector_name) ==
    /\ cfg' = [cfg EXCEPT !.edges = unsubscribe(@, subscriber, producer, socket_name, connector_name)]
    /\ last' = Wired("unsubscribe", subscriber, None)
    /\ UNCHANGED <<proc, conn, wk, thr, handled, cnt, nextDoc, waiting, putLog, calls, callers>>

Detach(producer, subscriber, socket_name, connector_name) ==
    /\ cfg' = [cfg EXCEPT !.edges = detach(@, producer, subscriber, socket_name, connector_name)]
    /\ last' = Wired("detach", producer, None)
    /\ UNCHANGED <<proc, conn, wk, thr, handled, cnt, nextDoc, waiting, putLog, calls, callers>>

\* protocol tags
Protocols == {None, "json", "xml"}

\* producer A with the sockets out and alt, subscriber B with the connectors in and
\* aux, nothing connected yet; out is the default socket, B has no default
\* connector; every assignment of protocols to the four terminals
Wirings ==
    {[procs |-> {"A", "B"},
      gen |-> [p \in {"A", "B"} |-> FALSE],
      keepalive |-> [p \in {"A", "B"} |-> FALSE],
      conns |-> [p \in {"A", "B"} |-> IF p = "B" THEN ConnectorNames ELSE {}],
      upper |-> {},
      socks |-> [p \in {"A", "B"} |-> IF p = "A" THEN SocketNames ELSE {}],
      default_socket |-> [p \in {"A", "B"} |-> IF p = "A" THEN "out" ELSE None],
      default_connector |-> [p \in {"A", "B"} |-> None],
      sproto |-> sp,
      cproto |-> cp,
      edges |-> <<>>] :
        sp \in [{"A"} \X SocketNames -> Protocols],
        cp \in [{"B"} \X ConnectorNames -> Protocols]}

WiringInit == \E c \in Wirings : InitWith(c, 0)

WiringNext ==
    \E p \in cfg.procs, q \in cfg.procs \cup {None},
       sn \in SocketNames \cup {None}, cn \in ConnectorNames \cup {None} :
        \/ q # None /\ Subscribe(p, q, sn, cn)
        \/ q # None /\ Attach(p, q, sn, cn)
        \/ Unsubscribe(p, q, sn, cn)
        \/ Detach(p, q, sn, cn)

WiringSpec == WiringInit /\ [][WiringNext]_vars

\* every existing edge is protocol compliant
AllCompliant ==
    \A i \in DOMAIN cfg.edges :
        LET e == cfg.edges[i]
        IN  protocol_compliance(cfg.sproto[<<e.src, e.s>>], cfg.cproto[<<e.dst, e.c>>])

\* the terminals the arguments resolve to have protocols that are both set and differ
Mismatch(producer, socket_name, subscriber, connector_name) ==
    LET t == _get_terminals(producer, socket_name, subscriber, connector_name)
    IN  /\ ~t.exc
        /\ cfg.sproto[<<producer, t.s>>] # None
        /\ cfg.cproto[<<subscriber, t.c>>] # None
        /\ cfg.sproto[<<producer, t.s>>] # cfg.cproto[<<subscriber, t.c>>]

C15_UnsubscribeFilters ==
    [][\A q \in cfg.procs, p \in cfg.procs \cup {None},
          sn \in SocketNames \cup {None}, cn \in ConnectorNames \cup {None} :
          Unsubscribe(q, p, sn, cn)
              => \A i \in DOMAIN cfg.edges :
                    LET e == cfg.edges[i]
                        matches == /\ e.dst = q
                                   /\ (cn = None \/ e.c = cn)
                                   /\ (p = None \/ e.src = p)
                                   /\ (sn = None \/ e.s = sn)
                    IN  matches <=> ~\E j \in DOMAIN cfg'.edges : cfg'.edges[j] = e]_vars

(* ------------------------------ graph shapes ---------------------------- *)
\* every processor is fed through its connector "in" and, in MultiEdge, "aux"
Shape(P, two, E) ==
    [procs |-> P,
     gen |-> [p \in P |-> FALSE],
     keepalive |-> [p \in P |-> FALSE],
     conns |-> [p \in P |-> IF p \in two THEN {"in", "aux"} ELSE {"in"}],
     upper |-> {},
     edges |-> E]

\* A -> B, A -> C, B -> D, C -> D
Diamond ==
    Shape({"A", "B", "C", "D"}, {},
          <<Edge("A", "B"), Edge("A", "C"), Edge("B", "D"), Edge("C", "D")>>)

\* two sockets of A feed two connectors of B
MultiEdge ==
    Shape({"A", "B"}, {"B"}, <<Edge("A", "B"), [src |-> "A", dst |-> "B", c |-> "aux"]>>)

\* A -> B -> A
Cycle == Shape({"A", "B"}, {}, <<Edge("A", "B"), Edge("B", "A")>>)

Shapes == {Diamond, MultiEdge, Cycle}

ShapesInit == \E c \in Shapes : InitWith(c, MaxCalls)

ShapesNext ==
    \/ \E p \in cfg.procs : Start(p) \/ Stop(p)
    \/ \E k \in DOMAIN conn : DrainDone(k)

ShapesSpec == ShapesInit /\ [][ShapesNext]_vars

\* nothing reachable from p has been started: the flags are as constructed
Fresh(p) ==
    \A q \in Reach(p) :
        /\ ~proc[q].initialized /\ ~proc[q].accepting /\ ~proc[q].running
        /\ ~proc[q].stopping /\ ~proc[q].aborted
        /\ \A k \in connectors(q) : ~conn[k].running /\ ~conn[k].accepting

\* start(p) has called on_open once on each reachable processor that was not
\* initialized and run() once on each connector of each reachable processor
\* that was not running
StartedOnce(p) ==
    \A q \in Reach(p) :
        /\ ~proc[q].initialized => cnt'.on_open[q] = cnt.on_open[q] + 1
        /\ ~proc[q].running =>
               \A k \in connectors(q) : cnt'.run[k] = cnt.run[k] + 1

\* C19: in a diamond, with two edges between the same two processors and in a
\* cycle, a start(p) on a graph that was never started and in which no on_open
\* raises (every reachable processor ends up initialized) returns normally, and
\* a start(p) that returns normally has invoked on_open exactly once on each
\* reachable processor that was not initialized and run() exactly once on each
\* connector of each reachable processor that was not running.
C19_StartCascades ==
    [][\A p \in cfg.procs :
          Start(p) =>
              /\ (Fresh(p) /\ \A q \in Reach(p) : proc'[q].initialized) => last'.ok
              /\ last'.ok => StartedOnce(p)]_vars

(* ------------------------------ concurrent start ------------------------ *)
\* start() executed statement by statement by the threads of Callers; on_open
\* returns normally here

\* the generators A and B both feed C
Shared ==
    [procs |-> {"A", "B", "C"},
     gen |-> [p \in {"A", "B", "C"} |-> p # "C"],
     keepalive |-> [p \in {"A", "B", "C"} |-> FALSE],
     conns |-> [p \in {"A", "B", "C"} |-> IF p = "C" THEN {"in"} ELSE {}],
     upper |-> {},
     edges |-> <<Edge("A", "C"), Edge("B", "C")>>]

ConcurrentInit == InitWith(Shared, Cardinality(Callers))

\* a frame of method fn of processor p at statement pc; i: subscribers visited
Frame(fn, p, pc) == [fn |-> fn, p |-> p, pc |-> pc, i |-> 0]

Top(t) == Head(callers[t])

\* the top frame moves to statement pc
Goto(t, pc) == callers' = [callers EXCEPT ![t] = <<[Top(t) EXCEPT !.pc = pc]>> \o Tail(@)]

\* the top frame returns; the outermost frame is the start() call itself
Return(t) ==
    /\ callers' = [callers EXCEPT ![t] = Tail(@)]
    /\ last' = IF Len(callers[t]) = 1 THEN Call("start", Top(t).p, TRUE) ELSE last

\* an exception leaves every frame of the thread
Raise(t) ==
    /\ callers' = [callers EXCEPT ![t] = <<>>]
    /\ last' = Call("start", callers[t][Len(callers[t])].p, FALSE)

\* the top frame moves to statement pc and calls method fn of processor q
Invoke(t, pc, fn, q) ==
    callers' = [callers EXCEPT ![t] = <<Frame(fn, q, "check"), [Top(t) EXCEPT !.pc = pc]>> \o Tail(@)]

\* a thread calls p.start()
Enter(t, p) ==
    /\ callers[t] = <<>>
    /\ Called
    /\ callers' = [callers EXCEPT ![t] = <<Frame("start", p, "check")>>]
    /\ UNCHANGED <<cfg, proc, conn, wk, thr, handled, cnt, nextDoc, waiting, putLog, last>>

\* Processor.start and Processor._start
StartStep(t) ==
    /\ callers[t] # <<>> /\ Top(t).fn = "start"
    /\ LET p == Top(t).p
       IN  CASE Top(t).pc = "check" ->
                    IF proc[p].stopping \/ proc[p].restarting THEN Raise(t)
                    ELSE Goto(t, "setup") /\ UNCHANGED last
             [] Top(t).pc = "setup" -> Invoke(t, "accept", "_setup", p) /\ UNCHANGED last
             [] Top(t).pc = "accept" -> Invoke(t, "run", "_accept_incoming", p) /\ UNCHANGED last
             [] Top(t).pc = "run" -> Invoke(t, "done", "_start_running", p) /\ UNCHANGED last
             [] Top(t).pc = "done" -> Return(t)
    /\ UNCHANGED <<calls, cfg, proc, conn, wk, thr, handled, cnt, nextDoc, waiting, putLog>>

\* Processor._setup up to the cascade
SetupStep(t) ==
    /\ callers[t] # <<>> /\ Top(t).fn = "_setup"
    /\ Top(t).pc \in {"check", "on_open"}
    /\ LET p == Top(t).p
       IN  CASE Top(t).pc = "check" ->
                    /\ IF proc[p].initialized THEN Return(t) ELSE Goto(t, "on_open") /\ UNCHANGED last
                    /\ UNCHANGED <<proc, cnt>>
             [] Top(t).pc = "on_open" ->
                    /\ cnt' = [cnt EXCEPT !.on_open[p] = @ + 1]
                    /\ proc' = [proc EXCEPT ![p].initialized = TRUE]
                    /\ Goto(t, "subs")
                    /\ UNCHANGED last
    /\ UNCHANGED <<calls, cfg, conn, wk, thr, handled, nextDoc, waiting, putLog>>

\* Processor._accept_incoming up to the cascade
AcceptStep(t) ==
    /\ callers[t] # <<>> /\ Top(t).fn = "_accept_incoming"
    /\ Top(t).pc \in {"check", "accept"}
    /\ LET p == Top(t).p
       IN  CASE Top(t).pc = "check" ->
                    /\ IF proc[p].accepting THEN Return(t)
                       ELSE IF proc[p].stopping THEN Raise(t)
                       ELSE Goto(t, "accept") /\ UNCHANGED last
                    /\ UNCHANGED <<proc, conn, wk, thr, handled, cnt>>
             [] Top(t).pc = "accept" ->
                    LET w1 == [World EXCEPT !.proc[p].accepting = TRUE]
                    IN  IF proc[p].restarting
                        THEN Apply(w1) /\ Return(t)
                        ELSE /\ Apply(each_connector(w1, p, "accept_incoming"))
                             /\ Goto(t, "subs")
                             /\ UNCHANGED last
    /\ UNCHANGED <<calls, cfg, nextDoc, waiting, putLog>>

\* Processor._start_running around the cascade
RunStep(t) ==
    /\ callers[t] # <<>> /\ Top(t).fn = "_start_running"
    /\ Top(t).pc \in {"check", "reset", "connectors", "flags"}
    /\ LET p == Top(t).p
       IN  CASE Top(t).pc = "check" ->
                    /\ IF proc[p].running THEN Return(t)
                       ELSE /\ Goto(t, IF proc[p].restarting THEN "flags" ELSE "reset")
                            /\ UNCHANGED last
                    /\ UNCHANGED <<proc, conn, wk, thr, handled, cnt>>
             [] Top(t).pc = "reset" ->
                    /\ Apply([World EXCEPT !.proc[p].runchan = 0])
                    /\ Goto(t, "connectors")
                    /\ UNCHANGED last
             [] Top(t).pc = "connectors" ->
                    /\ Apply([each_connector(World, p, "run")
                                EXCEPT !.proc[p].runchan = @ + Cardinality(connectors(p))])
                    /\ Goto(t, "subs")
                    /\ UNCHANGED last
             [] Top(t).pc = "flags" ->
                    LET w2 == [World EXCEPT !.proc[p].aborted = FALSE, !.proc[p].stopping = FALSE,
                                            !.proc[p].suspended = FALSE, !.proc[p].running = TRUE]
                        w3 == IF cfg.gen[p] THEN spawn(w2, p) ELSE w2
                    IN  /\ ~w3.cap
                        /\ Apply(IF proc[p].restarting
                                 THEN [each_connector(w3, p, "resume") EXCEPT !.proc[p].restarting = FALSE]
                                 ELSE w3)
                        /\ Return(t)
    /\ UNCHANGED <<calls, cfg, nextDoc, waiting, putLog>>

\* for subscriber in self._iter_subscribers(): subscriber.<the same method>()
Cascade(t) ==
    /\ callers[t] # <<>> /\ Top(t).pc = "subs"
    /\ LET subs == _iter_subscribers(Top(t).p)
           i == Top(t).i + 1
       IN  IF i > Len(subs)
           THEN IF Top(t).fn = "_start_running" THEN Goto(t, "flags") /\ UNCHANGED last
                ELSE Return(t)
           ELSE /\ callers' = [callers EXCEPT ![t] =
                                 <<Frame(Top(t).fn, subs[i], "check"), [Top(t) EXCEPT !.i = i]>>
                                     \o Tail(@)]
                /\ UNCHANGED last
    /\ UNCHANGED <<calls, cfg, proc, conn, wk, thr, handled, cnt, nextDoc, waiting, putLog>>

ConcurrentNext ==
    \E t \in Callers :
        \/ \E p \in cfg.procs : Enter(t, p)
        \/ StartStep(t)
        \/ SetupStep(t)
        \/ AcceptStep(t)
        \/ RunStep(t)
        \/ Cascade(t)

ConcurrentSpec == ConcurrentInit /\ [][ConcurrentNext]_vars

\* the worker threads spawned for p
Spawned(p) == {i \in WorkerIds : wk[p][i] # "none"}

\* C20: whichever way the statements of the start() calls of two threads
\* interleave, on_open has been invoked at most once on each processor, run() at
\* most once on each connector, at most one worker thread has been spawned per
\* generator, and once no call is in progress each running processor has counted
\* each of its connectors once.
C20_ConcurrentStart ==
    /\ \A p \in cfg.procs : cnt.on_open[p] <= 1 /\ Cardinality(Spawned(p)) <= 1
    /\ \A k \in DOMAIN conn : cnt.run[k] <= 1
    /\ (\A t \in Callers : callers[t] = <<>>)
           => \A p \in cfg.procs : proc[p].running => proc[p].runchan = Cardinality(connectors(p))

(* ------------------------------ a lone generator ------------------------ *)
\* one generator, with or without a connector of its own, started, stopped,
\* suspended and resumed: no abort and no restart
Generators ==
    {[procs |-> {"A"},
      gen |-> [p \in {"A"} |-> TRUE],
      keepalive |-> [p \in {"A"} |-> FALSE],
      conns |-> [p \in {"A"} |-> cs],
      upper |-> {},
      edges |-> <<>>] : cs \in {{}, {"in"}}}

GeneratorInit == \E c \in Generators : InitWith(c, MaxCalls)

GeneratorNext ==
    \/ \E p \in cfg.procs : Start(p) \/ Stop(p) \/ Suspend(p) \/ Resume(p)
    \/ \E k \in DOMAIN conn : Put(k)
    \/ ThreadNext

GeneratorSpec == GeneratorInit /\ [][GeneratorNext]_vars

\* p has come to rest: not running, no worker thread alive, no dispatcher running
AtRest(p) ==
    /\ ~proc[p].running /\ ~proc[p].stopping
    /\ \A i \in WorkerIds : wk[p][i] = "none"
    /\ \A k \in connectors(p) : ~conn[k].running

\* C23: for a generator that is only started, stopped, suspended and resumed:
\* on_startup is invoked only when on_open has completed (the processor is
\* initialized); on_tick is not invoked once every on_startup so far has been
\* followed by its on_shutdown; on_close is never invoked more often than
\* on_shutdown, nor on_shutdown more often than on_startup; and when the
\* generator has come to rest each worker run has had exactly one on_shutdown
\* and one on_close.
C23_HandlerOrder ==
    /\ [](\A p \in cfg.procs :
            /\ cnt.on_close[p] <= cnt.on_shutdown[p]
            /\ cnt.on_shutdown[p] <= cnt.on_startup[p]
            /\ AtRest(p) => /\ cnt.on_shutdown[p] = cnt.on_startup[p]
                            /\ cnt.on_close[p] = cnt.on_startup[p])
    /\ [][\A p \in cfg.procs, i \in WorkerIds :
            /\ WorkerEnter(p, i) => proc[p].initialized
            /\ (WorkerTick(p, i) /\ ~proc[p].suspended)
                   => cnt.on_shutdown[p] < cnt.on_startup[p]]_vars

(* ------------------------------ fan-in ---------------------------------- *)
\* the two producers of Shared are started and stopped; their subscriber C is
\* reached only through the cascades
FanInInit == InitWith(Shared, MaxCalls)

FanInNext ==
    \/ \E p \in {"A", "B"} : Start(p) \/ Stop(p)
    \/ ThreadNext

FanInSpec == FanInInit /\ [][FanInNext]_vars

\* the processors with a socket attached to a connector of s
Producers(s) == {cfg.edges[i].src : i \in {j \in DOMAIN cfg.edges : cfg.edges[j].dst = s}}

\* C24: a subscriber fed by two producers stops accepting only in a step after
\* which none of its producers is running, and a document a producer sends
\* while running is enqueued on the subscriber's connector.
C24_FanIn ==
    [][/\ \A s \in cfg.procs :
            (Cardinality(Producers(s)) > 1
                 /\ proc[s].accepting /\ ~proc'[s].accepting)
                => \A p \in Producers(s) : ~proc'[p].running
       /\ \A p \in cfg.procs, i \in WorkerIds :
            (WorkerTick(p, i) /\ nextDoc' # nextDoc)
                => \A j \in DOMAIN cfg.edges :
                      cfg.edges[j].src = p
                          => \E n \in DOMAIN conn'[<<cfg.edges[j].dst, cfg.edges[j].c>>].queue :
                                conn'[<<cfg.edges[j].dst, cfg.edges[j].c>>].queue[n] = nextDoc]_vars

====
